---- MODULE Spec2Model ----
(***************************************************************************)
(* A model of scanf.py: the translation of a scanf format into a regular   *)
(* expression, the compiled pattern SF_Pattern with its casts, the         *)
(* extraction done by SF_Pattern.scanf, and the bounded pattern cache      *)
(* behind compile / purge / scanf.                                         *)
(*                                                                         *)
(* Representation.                                                         *)
(*  - A string is a sequence of one-character strings.  A format is the    *)
(*    sequence of tokens that _gspec.finditer cuts it into: literal        *)
(*    characters and directive matches (the groupdict of each match).      *)
(*  - A regular expression is the sequence of atoms that re.compile        *)
(*    builds from the text translate returns: repetitions of a character   *)
(*    class and the opening / closing of a capturing group.                *)
(*  - The conversions modelled are d, u, s, c and r.                       *)
(***************************************************************************)
EXTENDS Integers, Sequences, FiniteSets, TLC

\* ------------------------------------------------------------------------
\* Bounds of the model
\* ------------------------------------------------------------------------
MaxFmtLen == 2      \* tokens in a format
MaxInputLen == 3    \* characters in a scanned string
MaxWidth == 2       \* the width written in a directive
MaxCap == 2         \* largest capacity given to the cache
MaxCompiles == 4    \* patterns constructed in one run of the cache
MaxCalls == 2       \* calls made by each concurrent caller

\* ------------------------------------------------------------------------
\* Characters and character classes
\* ------------------------------------------------------------------------
Digit == {"1"}
Sign == {"-", "+"}
Space == {" "}
Alphabet == {"1", "a", " "}
NonSpace == Alphabet \ Space
AnyChar == Alphabet

None == "None"
NoKey == ""

SeqsUpTo(S, n) == UNION {[1..m -> S] : m \in 0..n}

\* ------------------------------------------------------------------------
\* Regular expression atoms.  max = -1 is "no upper limit".
\* ------------------------------------------------------------------------
Rep(cls, lo, hi, lazy) == [k |-> "rep", cls |-> cls, min |-> lo, max |-> hi,
                           lazy |-> lazy, name |-> NoKey]
Open(name) == [k |-> "open", cls |-> {}, min |-> 0, max |-> 0,
               lazy |-> FALSE, name |-> name]
Close == [k |-> "close", cls |-> {}, min |-> 0, max |-> 0,
          lazy |-> FALSE, name |-> NoKey]
Lit(c) == Rep({c}, 1, 1, FALSE)
WsPlus == Rep(Space, 1, -1, FALSE)
WsStar == Rep(Space, 0, -1, FALSE)

\* The value of a string of decimal digits, most significant first.
RECURSIVE DecVal(_)
DecVal(ds) ==
    IF ds = <<>> THEN 0
    ELSE 10 * DecVal(SubSeq(ds, 1, Len(ds) - 1)) + ds[Len(ds)]

\* A quantifier as the text that str.format puts in place of {n}.
\* "+" , "" , "*?" , "{w}" and "{1w}?" are the texts the code can produce.
Quant(lead, width, lazy) ==
    [min |-> DecVal(lead \o width), max |-> DecVal(lead \o width), lazy |-> lazy]
QPlus == [min |-> 1, max |-> -1, lazy |-> FALSE]
QOne == [min |-> 1, max |-> 1, lazy |-> FALSE]
QLazyStar == [min |-> 0, max |-> -1, lazy |-> TRUE]

\* _fmts: the body of a conversion's group, given the quantifier q that
\* replaces {n}.  d has no {n}: format() leaves it as it is.
Fmts(spec, q) ==
    CASE spec = "d" -> <<Rep(Sign, 0, 1, FALSE), Rep(Digit, 1, -1, FALSE)>>
      [] spec = "u" -> <<Rep(Digit, q.min, q.max, q.lazy)>>
      [] spec = "s" -> <<Rep(NonSpace, q.min, q.max, q.lazy)>>
      [] spec = "c" -> <<Rep(AnyChar, q.min, q.max, q.lazy)>>
      [] spec = "r" -> <<Rep(AnyChar, q.min, q.max, q.lazy)>>

\* str.lower on a conversion letter.
Lower(spec) ==
    CASE spec = "X" -> "x"
      [] spec = "E" -> "e"
      [] spec = "F" -> "f"
      [] spec = "G" -> "g"
      [] OTHER -> spec

\* ------------------------------------------------------------------------
\* Tokens of a format
\* ------------------------------------------------------------------------
LitTok(c) == [t |-> "lit", ch |-> c, key |-> NoKey, skip |-> FALSE,
              width |-> <<>>, spec |-> NoKey]
EscTok == [t |-> "esc", ch |-> "%", key |-> NoKey, skip |-> FALSE,
           width |-> <<>>, spec |-> NoKey]
Dir(key, skip, width, spec) == [t |-> "dir", ch |-> "%", key |-> key,
                                skip |-> skip, width |-> width, spec |-> spec]

IsMatch(tok) == tok.t # "lit"       \* a match of _gspec
IsDir(tok) == tok.t = "dir"

\* _width and _no_width
Width(spec, width) ==
    IF spec = "r" THEN Quant(<<1>>, width, TRUE)
    ELSE Quant(<<>>, width, FALSE)

NoWidth(spec) ==
    CASE spec = "c" -> QOne
      [] spec = "r" -> QLazyStar
      [] OTHER -> QPlus

\* _process_spec
ProcessSpec(tok) ==
    IF tok.t = "esc" THEN <<Lit("%")>>
    ELSE
      LET q == IF tok.width # <<>> THEN Width(tok.spec, tok.width)
               ELSE NoWidth(tok.spec)
          body == Fmts(Lower(tok.spec), q)
          grp == IF tok.skip THEN body
                 ELSE IF tok.key # NoKey THEN <<Open(tok.key)>> \o body \o <<Close>>
                 ELSE <<Open(NoKey)>> \o body \o <<Close>>
      IN IF tok.spec # "c" THEN <<WsStar>> \o grp ELSE grp

\* str.split(): the maximal runs of non-space characters
RECURSIVE Split(_)
Split(s) ==
    IF s = <<>> THEN <<>>
    ELSE IF s[1] \in Space THEN Split(Tail(s))
    ELSE LET rest == Split(Tail(s))
         IN IF Len(s) > 1 /\ s[2] \notin Space
            THEN <<(<<s[1]>> \o rest[1])>> \o Tail(rest)
            ELSE <<(<<s[1]>>)>> \o rest

\* '\s+'.join of the escaped pieces
RECURSIVE JoinWs(_)
JoinWs(pieces) ==
    IF pieces = <<>> THEN <<>>
    ELSE LET head == [i \in 1..Len(pieces[1]) |-> Lit(pieces[1][i])]
         IN IF Len(pieces) = 1 THEN head
            ELSE head \o <<WsPlus>> \o JoinWs(Tail(pieces))

\* _process_ws
ProcessWs(s) ==
    IF s = <<>> THEN <<>>
    ELSE IF \A i \in 1..Len(s) : s[i] \in Space THEN <<WsPlus>>
    ELSE LET lead == IF s[1] \in Space THEN << <<>> >> ELSE <<>>
             trail == IF s[Len(s)] \in Space THEN << <<>> >> ELSE <<>>
         IN JoinWs(lead \o Split(s) \o trail)

\* translate: gaps go through _process_ws, matches through _process_spec
RECURSIVE TranslateFrom(_, _, _)
TranslateFrom(format, i, gap) ==
    IF i > Len(format) THEN ProcessWs(gap)
    ELSE IF IsMatch(format[i])
         THEN ProcessWs(gap) \o ProcessSpec(format[i]) \o TranslateFrom(format, i + 1, <<>>)
         ELSE TranslateFrom(format, i + 1, Append(gap, format[i].ch))

Translate(format) == TranslateFrom(format, 1, <<>>)

\* ------------------------------------------------------------------------
\* The matcher: re.match, anchored at the start, first match in
\* backtracking order (greedy: longest first; lazy: shortest first).
\* ------------------------------------------------------------------------
Fail == [ok |-> FALSE, caps |-> <<>>]

RECURSIVE RunLen(_, _, _, _)
RunLen(cls, s, pos, hi) ==
    IF pos >= Len(s) \/ hi = 0 THEN 0
    ELSE IF s[pos + 1] \notin cls THEN 0
    ELSE 1 + RunLen(cls, s, pos + 1, IF hi = -1 THEN -1 ELSE hi - 1)

RECURSIVE MatchAt(_, _, _, _, _)
RECURSIVE TryRep(_, _, _, _, _, _, _, _)
MatchAt(re, i, s, pos, caps) ==
    IF i > Len(re) THEN [ok |-> TRUE, caps |-> caps]
    ELSE LET a == re[i]
         IN CASE a.k = "open" ->
                   MatchAt(re, i + 1, s, pos,
                           Append(caps, [name |-> a.name, from |-> pos, to |-> pos]))
              [] a.k = "close" ->
                   MatchAt(re, i + 1, s, pos, [caps EXCEPT ![Len(caps)].to = pos])
              [] a.k = "rep" ->
                   LET run == RunLen(a.cls, s, pos, a.max)
                   IN IF run < a.min THEN Fail
                      ELSE TryRep(re, i, s, pos, caps,
                                  IF a.lazy THEN a.min ELSE run, a.min, run)

TryRep(re, i, s, pos, caps, k, lo, hi) ==
    IF k < lo \/ k > hi THEN Fail
    ELSE LET r == MatchAt(re, i + 1, s, pos + k, caps)
         IN IF r.ok THEN r
            ELSE TryRep(re, i, s, pos, caps,
                        IF re[i].lazy THEN k + 1 ELSE k - 1, lo, hi)

ReMatch(re, s) == MatchAt(re, 1, s, 0, <<>>)

\* match.groups(): the text of every capturing group, in order
Groups(s, m) == [i \in 1..Len(m.caps) |-> SubSeq(s, m.caps[i].from + 1, m.caps[i].to)]

\* ------------------------------------------------------------------------
\* Casts
\* ------------------------------------------------------------------------
IntVal(n) == [t |-> "int", n |-> n, s |-> <<>>]
TextVal(s) == [t |-> "text", n |-> 0, s |-> s]
ErrVal(e) == [t |-> "error", n |-> 0, s |-> <<e>>]
IsErrVal(v) == v.t = "error"

RECURSIVE Strip(_)
Strip(s) ==
    IF s = <<>> THEN s
    ELSE IF s[1] \in Space THEN Strip(Tail(s))
    ELSE IF s[Len(s)] \in Space THEN Strip(SubSeq(s, 1, Len(s) - 1))
    ELSE s

CharVal(c) ==
    CASE c = "0" -> 0 [] c = "1" -> 1 [] c = "2" -> 2 [] c = "3" -> 3
      [] c = "4" -> 4 [] c = "5" -> 5 [] c = "6" -> 6 [] c = "7" -> 7
      [] c = "8" -> 8 [] c = "9" -> 9

IsDigits(s) == s # <<>> /\ \A i \in 1..Len(s) : s[i] \in Digit
DigitsVal(s) == DecVal([i \in 1..Len(s) |-> CharVal(s[i])])

\* int(text, base=10)
Int10(text) ==
    LET s == Strip(text)
        neg == s # <<>> /\ s[1] = "-"
        body == IF s # <<>> /\ s[1] \in Sign THEN Tail(s) ELSE s
    IN IF IsDigits(body)
       THEN IntVal(IF neg THEN 0 - DigitsVal(body) ELSE DigitsVal(body))
       ELSE ErrVal("ValueError")

\* the operands of a chain of % operators
RECURSIVE SplitPct(_)
SplitPct(s) ==
    IF s = <<>> THEN << <<>> >>
    ELSE LET rest == SplitPct(Tail(s))
         IN IF s[1] = "%" THEN << <<>> >> \o rest
            ELSE <<(<<s[1]>> \o rest[1])>> \o Tail(rest)

RECURSIVE ModChain(_)
ModChain(parts) ==
    IF Len(parts) = 1 THEN DigitsVal(Strip(parts[1]))
    ELSE ModChain(SubSeq(parts, 1, Len(parts) - 1)) % DigitsVal(Strip(parts[Len(parts)]))

IsName(s) == s # <<>> /\ s[1] = "a" /\ \A i \in 1..Len(s) : s[i] \in {"a", "1"}

\* eval(text), on the expressions the characters 1, a, space and % can
\* spell: decimal literals and names joined by the % operator.  A name
\* is unbound; anything else is no expression.
Eval(text) ==
    LET parts == SplitPct(text)
        n == Len(parts)
    IN IF \A i \in 1..n : IsDigits(Strip(parts[i]))
       THEN IntVal(ModChain(parts))
       ELSE IF \A i \in 1..n : IsDigits(Strip(parts[i])) \/ IsName(Strip(parts[i]))
       THEN ErrVal("NameError")
       ELSE ErrVal("SyntaxError")

\* _casts
Casts(spec, text) ==
    CASE spec \in {"d", "u"} -> Int10(text)
      [] spec \in {"s", "c"} -> TextVal(text)
      [] spec = "r" -> Eval(text)

\* ------------------------------------------------------------------------
\* SF_Pattern
\* ------------------------------------------------------------------------
Kinds == {"text", "bytes"}
PyMajors == {2, 3}     \* sys.version_info[0]

NoErr == ""
ErrPattern(e, format, kind) ==
    [err |-> e, format |-> format, kind |-> kind, re |-> <<>>,
     type |-> None, casts |-> <<>>]
NoPattern == ErrPattern("unset", <<>>, "text")
IsPattern(p) == p.err = NoErr

\* the key under which _get_types records a directive: d['key'] has the
\* type of the format, or is None when the directive has no key
NoneKey == [type |-> "NoneType", s |-> None]
CastKey(tok, kind) ==
    IF tok.key = NoKey THEN NoneKey ELSE [type |-> kind, s |-> tok.key]

\* the key under which match.groupdict() reports a group: Python 3 names
\* groups with str whatever the pattern's type; in Python 2 a name read
\* from a byte pattern equals the same name read from a unicode pattern
GroupKey(py, kind, name) ==
    [type |-> IF py = 3 THEN "text" ELSE kind, s |-> name]

Matches(format) == SelectSeq(format, IsMatch)     \* _spec.finditer(format)

\* _get_types; d['spec'] is None for a match of %%, and None.lower() raises
GetTypes(format, kind, type) ==
    LET ms == Matches(format)
        n == Len(ms)
    IN IF \E i \in 1..n : ms[i].t = "esc" THEN [err |-> "AttributeError", val |-> <<>>]
       ELSE IF type = "dict"
       THEN [err |-> NoErr,
             val |-> [k \in {CastKey(ms[i], kind) : i \in 1..n} |->
                        LET last == CHOOSE i \in 1..n :
                                      /\ CastKey(ms[i], kind) = k
                                      /\ \A j \in (i + 1)..n : CastKey(ms[j], kind) # k
                        IN Lower(ms[last].spec)]]
       ELSE [err |-> NoErr, val |-> [i \in 1..n |-> Lower(ms[i].spec)]]

IsOpen(a) == a.k = "open"
IsNamed(a) == a.k = "open" /\ a.name # NoKey

\* SF_Pattern.__new__
NewPattern(format, kind) ==
    LET re == Translate(format)
        groups == Len(SelectSeq(re, IsOpen))              \* cre.groups
        named == SelectSeq(re, IsNamed)
        groupindex == {named[i].name : i \in 1..Len(named)}
    IN IF Len(named) # Cardinality(groupindex)
       THEN ErrPattern("re.error", format, kind)          \* redefinition of group name
       ELSE IF groupindex # {} /\ Cardinality(groupindex) # groups
       THEN ErrPattern("RuntimeError", format, kind)
       ELSE LET type == IF groupindex = {} THEN "tuple" ELSE "dict"
                casts == GetTypes(format, kind, type)
            IN IF casts.err # NoErr THEN ErrPattern(casts.err, format, kind)
               ELSE [err |-> NoErr, format |-> format, kind |-> kind, re |-> re,
                     type |-> type, casts |-> casts.val]

\* results of a scan
NoneResult == [tag |-> "None", err |-> NoErr, val |-> <<>>]
ErrResult(e) == [tag |-> "error", err |-> e, val |-> <<>>]
TupleResult(t) == [tag |-> "tuple", err |-> NoErr, val |-> t]
DictResult(d) == [tag |-> "dict", err |-> NoErr, val |-> d]
NoResult == [tag |-> "unset", err |-> NoErr, val |-> <<>>]

Min(a, b) == IF a < b THEN a ELSE b

\* _return_tuple: zip(self._casts, match.groups())
ReturnTuple(p, groups) ==
    LET n == Min(Len(p.casts), Len(groups))
        t == [i \in 1..n |-> Casts(p.casts[i], groups[i])]
    IN IF \E i \in 1..n : IsErrVal(t[i])
       THEN ErrResult(t[CHOOSE i \in 1..n :
                          IsErrVal(t[i]) /\ \A j \in 1..(i - 1) : ~IsErrVal(t[j])].s[1])
       ELSE TupleResult(t)

\* _return_dict: every item of match.groupdict() cast by self._casts[k]
ReturnDict(p, py, caps, groups) ==
    LET n == Len(caps)
        key(i) == GroupKey(py, p.kind, caps[i].name)
        val(i) == IF key(i) \notin DOMAIN p.casts THEN ErrVal("KeyError")
                  ELSE Casts(p.casts[key(i)], groups[i])
    IN IF \E i \in 1..n : IsErrVal(val(i))
       THEN ErrResult(val(CHOOSE i \in 1..n :
                            IsErrVal(val(i)) /\ \A j \in 1..(i - 1) : ~IsErrVal(val(j))).s[1])
       ELSE DictResult([k \in {key(i) : i \in 1..n} |->
                          val(CHOOSE i \in 1..n : key(i) = k)])

\* a scanf that turns a failed cast into "no match"
PatternScanf_SwallowErrors(p, py, str) ==
    LET m == ReMatch(p.re, str)
        r == IF p.type = "tuple" THEN ReturnTuple(p, Groups(str, m))
             ELSE ReturnDict(p, py, m.caps, Groups(str, m))
    IN IF ~m.ok THEN NoneResult
       ELSE IF r.tag = "error" THEN NoneResult ELSE r

\* SF_Pattern.scanf
PatternScanf(p, py, str) ==
    LET m == ReMatch(p.re, str)
    IN IF ~m.ok THEN NoneResult
       ELSE IF p.type = "tuple" THEN ReturnTuple(p, Groups(str, m))
       ELSE ReturnDict(p, py, m.caps, Groups(str, m))

\* ------------------------------------------------------------------------
\* State
\* ------------------------------------------------------------------------
VARIABLES
    format, kind, string,       \* the inputs of one compile-and-scan
    pat,                        \* the SF_Pattern built from format, or the error raised
    result,                     \* what SF_Pattern.scanf returned or raised
    pc,                         \* position of the compile-and-scan run
    cache,                      \* _cache: (type(key), key) -> pattern object
    max,                        \* _cache.__max
    compiled,                   \* how many times SF_Pattern.__new__ has run
    ret,                        \* what the last call of compile / scanf returned or raised
    op,                         \* the last call made on the module
    tpc, tkey, tobj,            \* each concurrent caller: position, key and new pattern
    calls,                      \* calls each concurrent caller has finished
    failed                      \* callers whose call ended in popitem's KeyError

scanVars == <<format, kind, string, pat, result, pc>>
cacheVars == <<cache, max, compiled, ret, op>>
threadVars == <<tpc, tkey, tobj, calls, failed>>
vars == <<format, kind, string, pat, result, pc, cache, max, compiled, ret, op,
          tpc, tkey, tobj, calls, failed>>

\* the directives a format is drawn from
Specs == {"d", "s", "c", "r"}
Widths == {<<MaxWidth>>}
Tokens ==
    {LitTok("a"), LitTok(" "), EscTok}
    \cup {Dir(NoKey, FALSE, <<>>, sp) : sp \in Specs}
    \cup {Dir(NoKey, TRUE, <<>>, "d")}
    \cup {Dir("x", FALSE, <<>>, "d"), Dir("y", FALSE, <<>>, "s"), Dir("x", TRUE, <<>>, "s")}
    \cup {Dir(NoKey, FALSE, w, sp) : w \in Widths, sp \in {"d", "u", "s", "c", "r"}}
Formats == SeqsUpTo(Tokens, MaxFmtLen)
Inputs == SeqsUpTo(Alphabet, MaxInputLen)

\* the formats and strings the calls on the module are drawn from; the
\* last format mixes a keyed and an unkeyed capture and does not compile
CacheFormats ==
    { <<Dir(NoKey, FALSE, <<>>, "d")>>,
      <<Dir(NoKey, FALSE, <<>>, "s")>>,
      <<Dir("x", FALSE, <<>>, "d"), Dir(NoKey, FALSE, <<>>, "d")>> }
CacheInputs == { <<"1">>, <<"a">> }
Threads == {1, 2}

\* ------------------------------------------------------------------------
\* _SizedDict and the module functions
\* ------------------------------------------------------------------------
EmptyDict == [k \in {} |-> NoPattern]

\* a key that leaves the type of the format out
CacheKey_NoType(f, k) == [type |-> "text", key |-> f]

\* (type(key), key)
CacheKey(f, k) == [type |-> k, key |-> f]

\* a lookup that never finds the format
CacheHit_Never(c, key) == FALSE

\* try: _cache[format] / except KeyError
CacheHit(c, key) == key \in DOMAIN c

\* the test with the bound off by one
NeedsEvict_OffByOne(c, mx, key) == key \notin DOMAIN c /\ Cardinality(DOMAIN c) > mx

\* the test of _SizedDict.__setitem__
NeedsEvict(c, mx, key) == key \notin DOMAIN c /\ Cardinality(DOMAIN c) + 1 > mx

\* dict.popitem, removing the entry victim
PopItem(c, victim) == [k \in DOMAIN c \ {victim} |-> c[k]]

\* dict.__setitem__
SetItem(c, key, val) == [k \in DOMAIN c \cup {key} |-> IF k = key THEN val ELSE c[k]]

PatternObj(id, p) == [id |-> id, pat |-> p]

NoRet == [id |-> 0, pat |-> NoPattern, res |-> NoResult]
NoOp == [name |-> "none", format |-> <<>>, kind |-> "text", hit |-> FALSE, evicted |-> 0]

InitScanVars ==
    /\ format = <<>> /\ kind = "text" /\ string = <<>>
    /\ pat = NoPattern /\ result = NoResult /\ pc = "start"
InitCacheVars ==
    /\ cache = EmptyDict
    /\ max \in 1..MaxCap
    /\ compiled = 0
    /\ ret = NoRet
    /\ op = NoOp
InitThreadVars ==
    /\ tpc = [t \in Threads |-> "idle"]
    /\ tkey = [t \in Threads |-> CacheKey(<<>>, "text")]
    /\ tobj = [t \in Threads |-> PatternObj(0, NoPattern)]
    /\ calls = [t \in Threads |-> 0]
    /\ failed = {}

\* ------------------------------------------------------------------------
\* One compile and one scan of a pattern, every format and string
\* ------------------------------------------------------------------------
InitScan ==
    /\ format \in Formats
    /\ kind \in Kinds
    /\ string = <<>>
    /\ pat = NoPattern
    /\ result = NoResult
    /\ pc = "start"
    /\ InitCacheVars /\ max = 1
    /\ InitThreadVars

\* SF_Pattern.__new__(SF_Pattern, format)
New ==
    /\ pc = "start"
    /\ pat' = NewPattern(format, kind)
    /\ pc' = "compiled"
    /\ UNCHANGED <<format, kind, string, result, cacheVars, threadVars>>

\* SF_Pattern.scanf(string), string of the pattern's own type, under
\* either major version of the interpreter
Scan ==
    /\ pc = "compiled"
    /\ IsPattern(pat)
    /\ \E s \in Inputs, py \in PyMajors :
         /\ string' = s
         /\ result' = PatternScanf(pat, py, s)
    /\ pc' = "scanned"
    /\ UNCHANGED <<format, kind, pat, cacheVars, threadVars>>

NextScan == New \/ Scan
SpecScan == InitScan /\ [][NextScan]_vars

\* ------------------------------------------------------------------------
\* The module used by one caller: compile, scanf and purge in any order
\* ------------------------------------------------------------------------
Init == InitScanVars /\ InitCacheVars /\ InitThreadVars

\* what compile(f) returns: the cached object, or a newly built one
Returned(f, k) ==
    LET key == CacheKey(f, k)
    IN IF CacheHit(cache, key) THEN cache[key]
       ELSE LET p == NewPattern(f, k)
            IN PatternObj(IF IsPattern(p) THEN compiled + 1 ELSE 0, p)

\* what compile(f) does to the cache, in a call of the function name
CacheUpdate(name, f, k) ==
    LET key == CacheKey(f, k)
        obj == Returned(f, k)
    IN IF CacheHit(cache, key)
       THEN /\ UNCHANGED <<cache, compiled>>
            /\ op' = [name |-> name, format |-> f, kind |-> k, hit |-> TRUE, evicted |-> 0]
       ELSE /\ compiled < MaxCompiles
            /\ compiled' = compiled + 1
            /\ IF ~IsPattern(obj.pat)                     \* __new__ raised
               THEN /\ cache' = cache
                    /\ op' = [name |-> name, format |-> f, kind |-> k,
                              hit |-> FALSE, evicted |-> 0]
               ELSE IF NeedsEvict(cache, max, key)
               THEN /\ \E victim \in DOMAIN cache :
                         cache' = SetItem(PopItem(cache, victim), key, obj)
                    /\ op' = [name |-> name, format |-> f, kind |-> k,
                              hit |-> FALSE, evicted |-> 1]
               ELSE /\ cache' = SetItem(cache, key, obj)
                    /\ op' = [name |-> name, format |-> f, kind |-> k,
                              hit |-> FALSE, evicted |-> 0]

\* compile(format)
Compile ==
    /\ \E f \in CacheFormats, k \in Kinds :
         /\ CacheUpdate("compile", f, k)
         /\ ret' = [id |-> Returned(f, k).id, pat |-> Returned(f, k).pat, res |-> NoResult]
    /\ UNCHANGED <<max, scanVars, threadVars>>

\* scanf(format, string)
Scanf ==
    /\ \E f \in CacheFormats, k \in Kinds, s \in CacheInputs, py \in PyMajors :
         /\ CacheUpdate("scanf", f, k)
         /\ ret' = [id |-> Returned(f, k).id, pat |-> Returned(f, k).pat,
                    res |-> IF IsPattern(Returned(f, k).pat)
                            THEN PatternScanf(Returned(f, k).pat, py, s)
                            ELSE NoResult]
    /\ UNCHANGED <<max, scanVars, threadVars>>

\* purge()
Purge ==
    /\ cache' = EmptyDict
    /\ op' = [name |-> "purge", format |-> <<>>, kind |-> "text", hit |-> FALSE, evicted |-> 0]
    /\ ret' = NoRet
    /\ UNCHANGED <<max, compiled, scanVars, threadVars>>

Next == Compile \/ Scanf \/ Purge
Spec == Init /\ [][Next]_vars

\* ------------------------------------------------------------------------
\* The module used by concurrent callers.  The code takes no lock, so a
\* call is a sequence of steps between which the other callers run:
\* the lookup, the two operands of the test in __setitem__, popitem, and
\* the insertion.
\* ------------------------------------------------------------------------
InitConc == InitScanVars /\ InitCacheVars /\ InitThreadVars

Return(t) ==
    /\ tpc' = [tpc EXCEPT ![t] = "idle"]
    /\ calls' = [calls EXCEPT ![t] = @ + 1]

\* a caller enters compile(format)
Call(t) ==
    /\ tpc[t] = "idle"
    /\ calls[t] < MaxCalls
    /\ \E f \in CacheFormats, k \in Kinds : tkey' = [tkey EXCEPT ![t] = CacheKey(f, k)]
    /\ tpc' = [tpc EXCEPT ![t] = "get"]
    /\ UNCHANGED <<tobj, calls, failed, cacheVars, scanVars>>

\* try: return _cache[format]; except KeyError: SF_Pattern.__new__(...)
Get(t) ==
    /\ tpc[t] = "get"
    /\ IF CacheHit(cache, tkey[t])
       THEN Return(t) /\ UNCHANGED tobj
       ELSE LET p == NewPattern(tkey[t].key, tkey[t].type)
            IN IF IsPattern(p)
               THEN /\ tobj' = [tobj EXCEPT ![t] = PatternObj(0, p)]
                    /\ tpc' = [tpc EXCEPT ![t] = "contains"]
                    /\ UNCHANGED calls
               ELSE Return(t) /\ UNCHANGED tobj
    /\ UNCHANGED <<tkey, failed, cacheVars, scanVars>>

\* __setitem__: (type(key), key) not in self
Contains(t) ==
    /\ tpc[t] = "contains"
    /\ tpc' = [tpc EXCEPT ![t] = IF tkey[t] \notin DOMAIN cache THEN "len" ELSE "insert"]
    /\ UNCHANGED <<tkey, tobj, calls, failed, cacheVars, scanVars>>

\* __setitem__: len(self) + 1 > self.__max
LenTest(t) ==
    /\ tpc[t] = "len"
    /\ tpc' = [tpc EXCEPT ![t] = IF Cardinality(DOMAIN cache) + 1 > max THEN "pop" ELSE "insert"]
    /\ UNCHANGED <<tkey, tobj, calls, failed, cacheVars, scanVars>>

\* __setitem__: self.popitem(), which raises KeyError on an empty dict
Pop(t) ==
    /\ tpc[t] = "pop"
    /\ IF DOMAIN cache = {}
       THEN /\ failed' = failed \cup {t}
            /\ Return(t)
            /\ UNCHANGED cache
       ELSE /\ \E victim \in DOMAIN cache : cache' = PopItem(cache, victim)
            /\ tpc' = [tpc EXCEPT ![t] = "insert"]
            /\ UNCHANGED <<calls, failed>>
    /\ UNCHANGED <<tkey, tobj, max, compiled, ret, op, scanVars>>

\* __setitem__: super().__setitem__((type(key), key), val), and return
Insert(t) ==
    /\ tpc[t] = "insert"
    /\ cache' = SetItem(cache, tkey[t], tobj[t])
    /\ Return(t)
    /\ UNCHANGED <<tkey, tobj, failed, max, compiled, ret, op, scanVars>>

\* a caller runs purge()
TPurge(t) ==
    /\ tpc[t] = "idle"
    /\ calls[t] < MaxCalls
    /\ cache' = EmptyDict
    /\ calls' = [calls EXCEPT ![t] = @ + 1]
    /\ UNCHANGED <<tpc, tkey, tobj, failed, max, compiled, ret, op, scanVars>>

NextConc ==
    \E t \in Threads :
        Call(t) \/ Get(t) \/ Contains(t) \/ LenTest(t) \/ Pop(t) \/ Insert(t) \/ TPurge(t)
SpecConc == InitConc /\ [][NextConc]_vars

\* ------------------------------------------------------------------------
\* Vocabulary of the properties
\* ------------------------------------------------------------------------
IsCapturing(tok) == IsDir(tok) /\ ~tok.skip
IsEscape(tok) == tok.t = "esc"
IsKeyed(tok) == IsDir(tok) /\ tok.key # NoKey
IsUnkeyedCapture(tok) == IsCapturing(tok) /\ tok.key = NoKey
NotEscape(tok) == ~IsEscape(tok)

Capturing(f) == SelectSeq(f, IsCapturing)
Some(f, P(_)) == \E i \in 1..Len(f) : P(f[i])

\* the match of the compiled pattern on the scanned string, and the text
\* of its groups: group i is the capture of the i-th capturing directive
TheMatch == ReMatch(pat.re, string)
Captured == Groups(string, TheMatch)

\* what the i-th capturing directive's own conversion makes of its capture
OwnCast(i) == Casts(Lower(Capturing(format)[i].spec), Captured[i])
OwnCastsSucceed == \A i \in 1..Len(Capturing(format)) : ~IsErrVal(OwnCast(i))

\* a cast that the pattern applies to a group of the match m fails
CastFailsIn(m) ==
    LET g == Groups(string, m)
    IN IF pat.type = "tuple"
       THEN \E i \in 1..Min(Len(pat.casts), Len(g)) : IsErrVal(Casts(pat.casts[i], g[i]))
       ELSE \E i \in 1..Len(g) : \E k \in DOMAIN pat.casts :
               k.s = m.caps[i].name /\ IsErrVal(Casts(pat.casts[k], g[i]))
CastFails == CastFailsIn(TheMatch)

\* the characters a conversion's value is made of
ValueClass(spec) == IF spec \in {"d", "u"} THEN Digit ELSE NonSpace

\* the key of the cache entry the last call asked for
AskedKey(o) == [type |-> o.kind, key |-> o.format]
IsLookup(o) == o.name \in {"compile", "scanf"}

\* ------------------------------------------------------------------------
\* Properties
\* ------------------------------------------------------------------------

\* C1: in positional mode, element i of the result of a matching scan is
\* the capture of the i-th capturing directive converted by that
\* directive's own conversion, and the result has one element for each
\* capturing directive; skip directives add no element and shift no cast.
C1_SkipKeepsCasts ==
    (pc = "scanned" /\ pat.type = "tuple" /\ TheMatch.ok /\ OwnCastsSucceed)
      => /\ result.tag = "tuple"
         /\ Len(result.val) = Len(Capturing(format))
         /\ \A i \in 1..Len(Capturing(format)) : result.val[i] = OwnCast(i)

\* C2: compiling fails when some directive carries a key and some
\* non-skip directive carries none; without any key the mode is
\* positional; with a key on every non-skip directive the mode is named.
C2_MixedKeysFail ==
    pc # "start"
      => /\ ((Some(format, IsKeyed) /\ Some(format, IsUnkeyedCapture)) => ~IsPattern(pat))
         /\ ((~Some(format, IsKeyed) /\ IsPattern(pat)) => pat.type = "tuple")
         /\ ((Some(format, IsKeyed) /\ ~Some(format, IsUnkeyedCapture) /\ IsPattern(pat))
               => pat.type = "dict")

\* C3: a format with the escape %% compiles whenever it compiles without
\* the escape, and the escape adds no element to the result of a scan.
C3_EscapeCompiles ==
    (pc # "start" /\ Some(format, IsEscape)
       /\ IsPattern(NewPattern(SelectSeq(format, NotEscape), kind)))
      => /\ IsPattern(pat)
         /\ ((pc = "scanned" /\ result.tag = "tuple")
               => Len(result.val) = Len(Capturing(format)))

\* C4: when every capturing directive is keyed, a matching scan returns
\* a mapping whose keys are exactly the directives' keys, of the type of
\* the format, each mapped to its capture converted by its directive's
\* conversion; for text formats and byte formats alike.
C4_NamedMapping ==
    (pc = "scanned" /\ Capturing(format) # <<>> /\ ~Some(format, IsUnkeyedCapture)
       /\ TheMatch.ok /\ OwnCastsSucceed)
      => /\ result.tag = "dict"
         /\ DOMAIN result.val =
              {[type |-> kind, s |-> Capturing(format)[i].key] : i \in 1..Len(Capturing(format))}
         /\ \A i \in 1..Len(Capturing(format)) :
              result.val[[type |-> kind, s |-> Capturing(format)[i].key]] = OwnCast(i)

\* C7: a width n bounds a capture from above for every conversion but c
\* (a value of 1 to n characters matches, never more than n is
\* captured); c captures exactly n characters, and one without a width.
C7_WidthBound ==
    /\ (pc = "scanned" /\ TheMatch.ok)
      => \A i \in 1..Len(Capturing(format)) :
              LET tok == Capturing(format)[i]
                  n == DecVal(tok.width)
                  len == Len(Captured[i])
              IN /\ ((tok.width # <<>> /\ tok.spec # "c") => len <= n)
                 /\ ((tok.width # <<>> /\ tok.spec = "c") => len = n)
                 /\ ((tok.width = <<>> /\ tok.spec = "c") => len = 1)
    /\ ( ( /\ pc = "scanned" /\ Len(format) = 1 /\ IsCapturing(format[1])
           /\ format[1].width # <<>> /\ format[1].spec \in {"d", "u", "s"}
           /\ Len(string) \in 1..DecVal(format[1].width)
           /\ \A j \in 1..Len(string) : string[j] \in ValueClass(format[1].spec) )
         => result.tag # "None" )

\* C8: scanf returns None exactly when the pattern does not match at the
\* start of the string; when it matches and a cast fails, the call ends
\* in that error, never in None and never in a result holding a part.
C8_NoneIffNoMatch ==
    pc = "scanned"
      => LET m == TheMatch
         IN
         /\ (result.tag = "None" <=> ~m.ok)
         /\ ((m.ok /\ CastFailsIn(m)) => result.tag = "error")
         /\ (result.tag = "tuple" => \A i \in 1..Len(result.val) : ~IsErrVal(result.val[i]))
         /\ (result.tag = "dict" => \A k \in DOMAIN result.val : ~IsErrVal(result.val[k]))

C8_Witness ==
    pc = "scanned" /\ TheMatch.ok /\ CastFails /\ result.tag = "error"

\* C5: the cache never holds more entries than its capacity; a miss at
\* full capacity evicts exactly one entry, and the format just compiled
\* is in the cache afterwards.
C5_CacheBounded ==
    [][ /\ Cardinality(DOMAIN cache') <= max'
        /\ ( ( /\ IsLookup(op') /\ AskedKey(op') \notin DOMAIN cache
               /\ IsPattern(ret'.pat) /\ Cardinality(DOMAIN cache) = max )
             => /\ AskedKey(op') \in DOMAIN cache'
                /\ Cardinality(DOMAIN cache \ DOMAIN cache') = 1
                /\ DOMAIN cache' \ DOMAIN cache = {AskedKey(op')} )
        /\ ( ( /\ IsLookup(op') /\ AskedKey(op') \notin DOMAIN cache
               /\ IsPattern(ret'.pat) /\ Cardinality(DOMAIN cache) < max )
             => DOMAIN cache' = DOMAIN cache \cup {AskedKey(op')} )
      ]_vars

C5_Witness ==
    /\ IsLookup(op) /\ op.evicted = 1
    /\ Cardinality(DOMAIN cache) = max
    /\ AskedKey(op) \in DOMAIN cache

\* C6: compile builds a pattern only on a miss: a call for a cached
\* format returns the cached object and builds nothing; purge empties
\* the cache, so that the next call for any format builds again.
C6_CompileOnMiss ==
    [][ /\ ( (IsLookup(op') /\ AskedKey(op') \in DOMAIN cache)
             => /\ compiled' = compiled
                /\ cache' = cache
                /\ ret'.id = cache[AskedKey(op')].id
                /\ ret'.pat = cache[AskedKey(op')].pat )
        /\ ( (IsLookup(op') /\ AskedKey(op') \notin DOMAIN cache)
             => /\ compiled' = compiled + 1
                /\ (IsPattern(ret'.pat) => ret'.id = compiled') )
        /\ (op'.name = "purge" => DOMAIN cache' = {})
        /\ \A k1, k2 \in DOMAIN cache' : (cache'[k1].id = cache'[k2].id => k1 = k2)
      ]_vars

C6_Witness ==
    /\ op.name = "compile" /\ op.hit
    /\ AskedKey(op) \in DOMAIN cache
    /\ ret.id = cache[AskedKey(op)].id
    /\ ret.id < compiled

\* C9: the cache is keyed by the kind and the content of the format: an
\* entry holds the pattern built from the format of its key, a text
\* format and a byte format of the same content have entries of their
\* own, and a call returns the pattern of the kind and content asked for.
C9_KeyedByKindAndFormat ==
    /\ \A key \in DOMAIN cache :
          cache[key].pat.kind = key.type /\ cache[key].pat.format = key.key
    /\ \A k1, k2 \in DOMAIN cache :
          (k1.key = k2.key /\ k1.type # k2.type) => cache[k1].id # cache[k2].id
    /\ (IsLookup(op) => (ret.pat.kind = op.kind /\ ret.pat.format = op.format))

C9_Witness ==
    /\ op.name = "compile" /\ op.hit
    /\ \E k1, k2 \in DOMAIN cache : k1.key = k2.key /\ k1.type # k2.type

\* C10: with concurrent callers the cache behaves as if each call were
\* atomic: it never holds more entries than its capacity, and no call
\* fails because another caller changed the cache in the middle of it.
C10_AtomicCache ==
    /\ Cardinality(DOMAIN cache) <= max
    /\ failed = {}

====
